---------------------------- MODULE Spec2Model ----------------------------
(***************************************************************************)
(* Model of the SSH switch accessory (class SshAccessory).                 *)
(*                                                                         *)
(* Two builds of the class are in the repository: src/src/accessory.ts     *)
(* and src/unnamed/part_000.  They differ only in getState; the variable   *)
(* `variant` says which build is running.                                  *)
(*                                                                         *)
(* Text whose trimming and casing matter (on_value, the data chunks) is a  *)
(* sequence of one-character strings.  Commands, names and log fragments   *)
(* are compared as wholes only, and are plain strings.                     *)
(***************************************************************************)
EXTENDS Integers, Sequences, FiniteSets

VARIABLES
    variant,      \* which build: "accessory.ts" or "part_000"
    config,       \* the AccessoryConfig handed to the constructor
    powerOn,      \* private powerOn = false
    name,         \* this.name
    onCommand,    \* this.onCommand
    offCommand,   \* this.offCommand
    stateCommand, \* this.stateCommand
    onValue,      \* this.onValue
    exactMatch,   \* this.exactMatch
    ssh,          \* this.ssh
    information,  \* characteristics set on informationService
    handlers,     \* event types with a listener on the On characteristic
    phase,        \* "constructed" until getServices has run, then "published"
    requests,     \* the ssh(command, options) calls made, in order
    calls,        \* one record per setState / getState invocation
    emitted,      \* number of stream events delivered so far
    last,         \* what the stream listener that ran last did
    lastLog       \* the line passed to accessory.log last

vars == <<variant, config, powerOn, name, onCommand, offCommand, stateCommand,
          onValue, exactMatch, ssh, information, handlers, phase, requests,
          calls, emitted, last, lastLog>>

fields == <<powerOn, name, onCommand, offCommand, stateCommand, onValue,
            exactMatch, ssh>>

(***************************************************************************)
(* Bounds of the model.                                                    *)
(***************************************************************************)
MaxCalls == 2     \* invocations of setState / getState by the hub
MaxEvents == 2    \* events the streams emit, all together

(***************************************************************************)
(* Text.                                                                   *)
(***************************************************************************)
UpperChars == <<"A","B","C","D","E","F","G","H","I","J","K","L","M",
                "N","O","P","Q","R","S","T","U","V","W","X","Y","Z">>
LowerChars == <<"a","b","c","d","e","f","g","h","i","j","k","l","m",
                "n","o","p","q","r","s","t","u","v","w","x","y","z">>
Whitespace == {" ", "\n", "\t", "\r"}

\* One "character" standing for a text that the regular expression built
\* from the source text of matchesString matches (String.prototype.match
\* turns a non-RegExp argument into new RegExp(String(argument))).  The
\* pattern holds upper-case letters (exactMatch, onValue, indexOf) and is
\* case-sensitive, so the lower-cased text no longer matches it.
FnSrc == "<matchesString source>"
FnSrcLower == "<matchesstring source>"

Min(S) == CHOOSE x \in S : \A y \in S : x <= y
Max(S) == CHOOSE x \in S : \A y \in S : x >= y

LowerTable ==
    [c \in {UpperChars[k] : k \in 1..Len(UpperChars)} \cup {FnSrc} |->
        IF c = FnSrc THEN FnSrcLower
        ELSE LowerChars[CHOOSE k \in 1..Len(UpperChars) : UpperChars[k] = c]]

LowerChar(c) == IF c \in DOMAIN LowerTable THEN LowerTable[c] ELSE c

toLowerCase(s) == [i \in 1..Len(s) |-> LowerChar(s[i])]

trim(s) ==
    LET keep == {i \in 1..Len(s) : s[i] \notin Whitespace}
    IN  IF keep = {} THEN <<>> ELSE SubSeq(s, Min(keep), Max(keep))

\* String.prototype.indexOf: the first 0-based position of sub in s, or -1.
indexOf(s, sub) ==
    LET hits == {i \in 0..(Len(s) - Len(sub)) :
                    SubSeq(s, i + 1, i + Len(sub)) = sub}
    IN  IF hits = {} THEN -1 ELSE Min(hits)

\* data.toString().match(accessory.matchesString): non-null iff the text
\* holds a match of the pattern made from the function's source.
matchFnSource(text) == \E i \in 1..Len(text) : text[i] = FnSrc

(***************************************************************************)
(* Configuration values.  An optional string is [present, v]; exact_match  *)
(* is "absent", "true" or "false".                                         *)
(***************************************************************************)
NoStr == [present |-> FALSE, v |-> <<>>]
Str(s) == [present |-> TRUE, v |-> s]
NoCmd == [present |-> FALSE, v |-> ""]
Cmd(c) == [present |-> TRUE, v |-> c]

TruthyStr(x) == x.present /\ x.v # <<>>
TruthyCmd(x) == x.present /\ x.v # ""
TruthyBool(x) == x = "true"

DefaultOnValue == <<"p","l","a","y","i","n","g">>

OnValueConfigs ==
    { NoStr,
      Str(<<>>),
      Str(<<" "," ","O","N"," "," ">>),
      Str(<<FnSrc>>) }
ExactMatchConfigs == {"absent", "true", "false"}
StateConfigs == {NoCmd, Cmd(""), Cmd("relay status")}
SshConfigs == {[host |-> "backup.local", port |-> "2222"]}
Variants == {"accessory.ts", "part_000"}

Configs ==
    [name : {"Lamp"}, on : {"relay on"}, off : {"relay off"},
     state : StateConfigs, on_value : OnValueConfigs,
     exact_match : ExactMatchConfigs,
     user : {"pi"}, host : {"lamp.local"}, password : {"secret"},
     key : {"undefined"}, ssh : SshConfigs]

Chunks ==
    { <<"O","N">>,
      <<" ","o","n","\n">>,
      <<"S","t","a","t","u","s",":"," ","O","N","\n">>,
      <<"S","t","a","t","u","s",":"," ","O","F","F","\n">>,
      <<"p","l","a","y","i","n","g","\n">>,
      <<FnSrc>> }

(***************************************************************************)
(* Errors and callback arguments.                                          *)
(***************************************************************************)
NoError == [kind |-> "none", msg |-> <<>>]
TransportErrors == {NoError, [kind |-> "transport", msg |-> <<"ECONNREFUSED">>]}
NewError(msg) == [kind |-> "generated", msg |-> msg]

NoCallback == [called |-> FALSE, err |-> NoError, hasValue |-> FALSE, value |-> FALSE]
CallbackErr(e) == [called |-> TRUE, err |-> e, hasValue |-> FALSE, value |-> FALSE]
CallbackOk == [called |-> TRUE, err |-> NoError, hasValue |-> FALSE, value |-> FALSE]
CallbackValue(b) == [called |-> TRUE, err |-> NoError, hasValue |-> TRUE, value |-> b]

NoLast ==
    [call |-> 0, event |-> "none", err |-> NoError, chunk |-> <<>>,
     applied |-> FALSE, matched |-> FALSE, from |-> "none", cb |-> NoCallback]

NoLog == [text |-> <<>>, value |-> <<>>]
Log(text) == [text |-> text, value |-> <<>>]
LogValue(text, value) == [text |-> text, value |-> value]

\* "" + err
errText(err) == IF err.kind = "none" THEN "null" ELSE "Error: " \o err.msg[1]

(***************************************************************************)
(* constructor                                                             *)
(***************************************************************************)
\* object-assign: the source's own fields overwrite the target's.
assign(target, source) ==
    [k \in (DOMAIN target) \cup (DOMAIN source) |->
        IF k \in DOMAIN source THEN source[k] ELSE target[k]]

\* config["on_value"] || "playing", then trim().toLowerCase()
ctorOnValue(c) ==
    toLowerCase(trim(IF TruthyStr(c.on_value) THEN c.on_value.v ELSE DefaultOnValue))

\* config["exact_match"] || true
ctorExactMatch(c) == IF TruthyBool(c.exact_match) THEN c.exact_match ELSE "true"

ctorSsh(c) ==
    assign([user |-> c.user, host |-> c.host, password |-> c.password, key |-> c.key],
           c.ssh)

Init ==
    /\ variant \in Variants
    /\ config \in Configs
    /\ powerOn = FALSE
    /\ name = config.name
    /\ onCommand = config.on
    /\ offCommand = config.off
    /\ stateCommand = config.state
    /\ onValue = ctorOnValue(config)
    /\ exactMatch = ctorExactMatch(config)
    /\ ssh = ctorSsh(config)
    /\ information = <<>>
    /\ handlers = {}
    /\ phase = "constructed"
    /\ requests = <<>>
    /\ calls = <<>>
    /\ emitted = 0
    /\ last = NoLast
    /\ lastLog = NoLog

(***************************************************************************)
(* matchesString                                                           *)
(***************************************************************************)
matchesStringSubstring(match) == indexOf(match, onValue) > -1

matchesString(match) ==
    IF TruthyBool(exactMatch)
    THEN match = onValue
    ELSE indexOf(match, onValue) > -1

(***************************************************************************)
(* getServices                                                             *)
(***************************************************************************)
getServicesAlwaysGet ==
    /\ phase = "constructed"
    /\ information' = [Manufacturer |-> "SSH Manufacturer", Model |-> "SSH Model",
                       SerialNumber |-> "SSH Serial Number"]
    /\ handlers' = {"set", "get"}
    /\ phase' = "published"
    /\ UNCHANGED <<variant, config, fields, requests, calls, emitted, last, lastLog>>

getServices ==
    /\ phase = "constructed"
    /\ information' = [Manufacturer |-> "SSH Manufacturer", Model |-> "SSH Model",
                       SerialNumber |-> "SSH Serial Number"]
    /\ handlers' = {"set"} \cup (IF TruthyCmd(stateCommand) THEN {"get"} ELSE {})
    /\ phase' = "published"
    /\ UNCHANGED <<variant, config, fields, requests, calls, emitted, last, lastLog>>

(***************************************************************************)
(* setState                                                                *)
(***************************************************************************)
\* accessory[prop]
Property(prop) ==
    CASE prop = "onCommand" -> onCommand
      [] prop = "offCommand" -> offCommand
      [] prop = "stateCommand" -> stateCommand.v

\* let state = powerOn ? "on" : "off"
setStateState(value) == IF value THEN "on" ELSE "off"

setStateCommandSwapped(value) == Property(setStateState(~value) \o "Command")

\* let prop = state + "Command"; let command = accessory[prop]
setStateCommand(value) == Property(setStateState(value) \o "Command")

\* The hub emits SET: setState(powerOn, callback) issues the request and
\* attaches the error and finish listeners.
setState(value) ==
    /\ "set" \in handlers
    /\ Len(calls) < MaxCalls
    /\ requests' = Append(requests, [command |-> setStateCommand(value), ssh |-> ssh])
    /\ calls' = Append(calls, [kind |-> "set", powerOn |-> value,
                               state |-> setStateState(value),
                               cbCount |-> 0])
    /\ UNCHANGED <<variant, config, fields, information, handlers, phase, emitted,
                   last, lastLog>>

Stepped(i, called) ==
    [calls EXCEPT ![i].cbCount = @ + (IF called THEN 1 ELSE 0)]

CanEmit(i, kind) ==
    /\ i \in 1..Len(calls)
    /\ calls[i].kind = kind
    /\ emitted < MaxEvents

setStateErrorArgPassThrough(err, state) == err

\* err || new Error("Error setting " + accessory.name + " to " + state)
setStateErrorArg(err, state) ==
    IF err.kind # "none" THEN err
    ELSE NewError(<<"Error setting ", name, " to ", state>>)

\* stream.on("error", ...) of setState
setStateError(i, err) ==
    /\ CanEmit(i, "set")
    /\ lastLog' = Log(<<"Error: ", errText(err)>>)
    /\ last' = [NoLast EXCEPT !.call = i, !.event = "error", !.err = err,
                    !.cb = CallbackErr(setStateErrorArg(err, calls[i].state))]
    /\ calls' = Stepped(i, TRUE)
    /\ emitted' = emitted + 1
    /\ UNCHANGED <<variant, config, fields, information, handlers, phase, requests>>

setStateFinishStoresPower(i) ==
    /\ CanEmit(i, "set")
    /\ lastLog' = Log(<<"Set ", name, " to ", calls[i].state>>)
    /\ last' = [NoLast EXCEPT !.call = i, !.event = "finish", !.cb = CallbackOk]
    /\ calls' = Stepped(i, TRUE)
    /\ emitted' = emitted + 1
    /\ powerOn' = calls[i].powerOn
    /\ UNCHANGED <<variant, config, name, onCommand, offCommand, stateCommand,
                   onValue, exactMatch, ssh, information, handlers, phase, requests>>

\* stream.on("finish", ...) of setState
setStateFinish(i) ==
    /\ CanEmit(i, "set")
    /\ lastLog' = Log(<<"Set ", name, " to ", calls[i].state>>)
    /\ last' = [NoLast EXCEPT !.call = i, !.event = "finish", !.cb = CallbackOk]
    /\ calls' = Stepped(i, TRUE)
    /\ emitted' = emitted + 1
    /\ UNCHANGED <<variant, config, fields, information, handlers, phase, requests>>

(***************************************************************************)
(* getState                                                                *)
(***************************************************************************)
\* The hub emits GET: getState(callback) issues the request and attaches the
\* listeners.  The hub emits GET only to a registered listener.
getState ==
    /\ "get" \in handlers
    /\ Len(calls) < MaxCalls
    /\ requests' = Append(requests, [command |-> Property("stateCommand"), ssh |-> ssh])
    /\ calls' = Append(calls, [kind |-> "get", powerOn |-> FALSE, state |-> "",
                               cbCount |-> 0])
    /\ UNCHANGED <<variant, config, fields, information, handlers, phase, emitted,
                   last, lastLog>>

getStateErrorArgPassThrough(err) == err

\* accessory.ts: err || new Error("Error getting " + accessory.name + " state")
\* part_000:     err || new Error("Error getting state of " + accessory.name)
getStateErrorArg(err) ==
    IF err.kind # "none" THEN err
    ELSE IF variant = "accessory.ts"
         THEN NewError(<<"Error getting ", name, " state">>)
         ELSE NewError(<<"Error getting state of ", name>>)

\* stream.on("error", ...) of getState
getStateError(i, err) ==
    /\ CanEmit(i, "get")
    /\ lastLog' = Log(<<"Error: ", errText(err)>>)
    /\ last' = [NoLast EXCEPT !.call = i, !.event = "error", !.err = err,
                    !.cb = CallbackErr(getStateErrorArg(err))]
    /\ calls' = Stepped(i, TRUE)
    /\ emitted' = emitted + 1
    /\ UNCHANGED <<variant, config, fields, information, handlers, phase, requests>>

\* stream.on("data", ...) of getState in src/src/accessory.ts
getStateDataAccessory(i, data) ==
    /\ variant = "accessory.ts"
    /\ CanEmit(i, "get")
    /\ LET match == matchFnSource(data)
           state == toLowerCase(trim(data))
       IN  IF match
           THEN /\ lastLog' = LogValue(<<"State of ", name, " is ">>, onValue)
                /\ last' = [NoLast EXCEPT !.call = i, !.event = "data", !.chunk = data,
                                !.from = "powerOn", !.cb = CallbackValue(powerOn)]
           ELSE /\ lastLog' = LogValue(<<"State of ", name, " is ">>, state)
                /\ last' = [NoLast EXCEPT !.call = i, !.event = "data", !.chunk = data,
                                !.applied = TRUE, !.matched = matchesString(state),
                                !.from = "matchesString",
                                !.cb = CallbackValue(matchesString(state))]
    /\ calls' = Stepped(i, TRUE)
    /\ emitted' = emitted + 1
    /\ UNCHANGED <<variant, config, fields, information, handlers, phase, requests>>

\* stream.on("data", ...) of getState in src/unnamed/part_000
getStateDataPart000(i, data) ==
    /\ variant = "part_000"
    /\ CanEmit(i, "get")
    /\ LET state == toLowerCase(trim(data))
       IN  /\ lastLog' = LogValue(<<"State of ", name, " is: ">>, state)
           /\ last' = [NoLast EXCEPT !.call = i, !.event = "data", !.chunk = data,
                           !.applied = TRUE, !.matched = matchesString(state),
                           !.from = "matchesString",
                           !.cb = CallbackValue(matchesString(state))]
    /\ calls' = Stepped(i, TRUE)
    /\ emitted' = emitted + 1
    /\ UNCHANGED <<variant, config, fields, information, handlers, phase, requests>>

\* finish, close and end of the getState stream: accessory.ts logs a line,
\* part_000 has no listener for them.  Neither calls the callback.
getStateTerminal(i, event) ==
    /\ CanEmit(i, "get")
    /\ lastLog' = IF variant = "accessory.ts"
                  THEN CASE event = "finish" -> Log(<<"Finished getting ", name, " state">>)
                         [] event = "close" -> Log(<<"Closed ", name, " state">>)
                         [] event = "end" -> Log(<<"Ended ", name, " state">>)
                  ELSE lastLog
    /\ last' = [NoLast EXCEPT !.call = i, !.event = event]
    /\ calls' = Stepped(i, FALSE)
    /\ emitted' = emitted + 1
    /\ UNCHANGED <<variant, config, fields, information, handlers, phase, requests>>

(***************************************************************************)
(* Specification                                                           *)
(***************************************************************************)
CallIds == 1..MaxCalls

Next ==
    \/ getServices
    \/ \E value \in BOOLEAN : setState(value)
    \/ getState
    \/ \E i \in CallIds, err \in TransportErrors : setStateError(i, err)
    \/ \E i \in CallIds : setStateFinish(i)
    \/ \E i \in CallIds, err \in TransportErrors : getStateError(i, err)
    \/ \E i \in CallIds, data \in Chunks : getStateDataAccessory(i, data)
    \/ \E i \in CallIds, data \in Chunks : getStateDataPart000(i, data)
    \/ \E i \in CallIds, event \in {"finish", "close", "end"} : getStateTerminal(i, event)

Spec == Init /\ [][Next]_vars

(***************************************************************************)
(* Properties                                                              *)
(***************************************************************************)
Normalized(data) == toLowerCase(trim(data))
Contains(msg, part) == \E k \in 1..Len(msg) : msg[k] = part
LastIs(kind, event) ==
    /\ last.event = event
    /\ last.call \in 1..Len(calls)
    /\ calls[last.call].kind = kind
Configured(x) == x.present /\ x.v # ""

\* C1: the callback handed to one getState invocation is called at most
\* once, whatever events its stream emits.
C1_GetCallbackAtMostOnce ==
    \A i \in 1..Len(calls) : calls[i].kind = "get" => calls[i].cbCount <= 1

\* C2: on a data event of getState the callback gets no error and the value
\* matchesString gives for the trimmed, lower-cased chunk, and never a value
\* taken from anywhere else.
C2_DataReportsMatchesString ==
    LastIs("get", "data") =>
        last.cb = CallbackValue(matchesString(Normalized(last.chunk)))

\* C3: configured with exact_match false, matchesString is true iff onValue
\* is a substring of the trimmed, lower-cased chunk.
C3_SubstringWhenNotExact ==
    (config.exact_match = "false" /\ last.applied) =>
        last.matched = (\E k \in 0..(Len(Normalized(last.chunk)) - Len(onValue)) :
                            SubSeq(Normalized(last.chunk), k + 1, k + Len(onValue)) = onValue)

\* C4: configured with exact_match true or without exact_match,
\* matchesString is true iff the trimmed, lower-cased chunk equals onValue.
C4_EqualityWhenExact ==
    (config.exact_match \in {"true", "absent"} /\ last.applied) =>
        last.matched = (Normalized(last.chunk) = onValue)

\* C4 witness: a chunk that holds onValue as a proper substring was judged,
\* and did not match.
C4_Witness ==
    /\ config.exact_match = "absent"
    /\ last.applied
    /\ ~last.matched
    /\ Normalized(last.chunk) # onValue
    /\ indexOf(Normalized(last.chunk), onValue) > -1

\* C5: every setState issues exactly one request, carrying the configured
\* on command for true and the off command for false, never the state
\* command.
C5_SetSendsConfiguredCommand ==
    /\ Len(requests) = Len(calls)
    /\ \A i \in 1..Len(calls) :
          calls[i].kind = "set" =>
              /\ requests[i].command = (IF calls[i].powerOn THEN config.on ELSE config.off)
              /\ requests[i].command # config.state.v

\* C5 witness: a setState(true) followed by a setState(false).
C5_Witness ==
    \E i, j \in 1..Len(calls) :
        /\ i < j
        /\ calls[i].kind = "set" /\ calls[i].powerOn
        /\ calls[j].kind = "set" /\ ~calls[j].powerOn

\* C6: getServices registers the SET listener always and the GET listener
\* iff a state command is configured; without one there is never a getState
\* invocation; once registered the listeners never change.
C6_GetOnlyWhenStateConfigured ==
    /\ [](/\ phase = "published" =>
                /\ "set" \in handlers
                /\ "get" \in handlers <=> Configured(config.state)
          /\ ~Configured(config.state) =>
                /\ "get" \notin handlers
                /\ \A i \in 1..Len(calls) : calls[i].kind # "get"
                /\ \A i \in 1..Len(requests) : requests[i].command \in {config.on, config.off})
    /\ [][phase = "published" => handlers' = handlers]_vars

\* C6 witness: no state command configured, services published, and the hub
\* has used the switch as often as the model lets it.
C6_Witness ==
    /\ ~config.state.present
    /\ phase = "published"
    /\ handlers = {"set"}
    /\ Len(calls) = MaxCalls

\* C7: an error event of a setState stream calls back with the transport's
\* error when there is one, and otherwise with a generated error naming the
\* accessory and the target state; never with success.
C7_SetErrorReported ==
    LastIs("set", "error") =>
        /\ last.cb.called
        /\ ~last.cb.hasValue
        /\ last.cb.err.kind # "none"
        /\ IF last.err.kind # "none"
           THEN last.cb.err = last.err
           ELSE /\ last.cb.err.kind = "generated"
                /\ Contains(last.cb.err.msg, config.name)
                /\ Contains(last.cb.err.msg,
                            IF calls[last.call].powerOn THEN "on" ELSE "off")

\* C7 witness: a setState(false) stream emitted an error without an error
\* object.
C7_Witness ==
    /\ LastIs("set", "error")
    /\ last.err.kind = "none"
    /\ ~calls[last.call].powerOn

\* C8: an error event of a getState stream calls back with the transport's
\* error when there is one, and otherwise with a generated error naming the
\* accessory; it passes no value.
C8_GetErrorReported ==
    LastIs("get", "error") =>
        /\ last.cb.called
        /\ ~last.cb.hasValue
        /\ last.cb.err.kind # "none"
        /\ IF last.err.kind # "none"
           THEN last.cb.err = last.err
           ELSE /\ last.cb.err.kind = "generated"
                /\ Contains(last.cb.err.msg, config.name)

\* C8 witness: a getState stream emitted an error without an error object.
C8_Witness ==
    /\ LastIs("get", "error")
    /\ last.err.kind = "none"

\* C9: powerOn keeps its default false, and no field derived from the
\* configuration is written after construction.
C9_FieldsNeverWritten ==
    /\ [](powerOn = FALSE)
    /\ [][fields' = fields]_vars

\* C9 witness: a setState(true) stream finished and called back with
\* success.
C9_Witness ==
    /\ LastIs("set", "finish")
    /\ calls[last.call].powerOn
    /\ last.cb = CallbackOk

\* C10: the callback handed to one setState invocation is called at most
\* once, whatever error and finish events its stream emits.
C10_SetCallbackAtMostOnce ==
    \A i \in 1..Len(calls) : calls[i].kind = "set" => calls[i].cbCount <= 1

====
